---- MODULE Spec2Model ----
(***************************************************************************)
(* The evaluation core of Vamos (lang/eval.go): Eval, the trampoline,      *)
(* evalNode, evalList and evalFunctionApplication, as a small-step machine *)
(* over the host call stack.                                               *)
(*                                                                         *)
(* A Go function that calls trampoline(...) synchronously is cut at that   *)
(* call: the part of the function that follows the call is a frame on      *)
(* `stack`, resumed when the nested trampoline returns.  The number of     *)
(* nested, not yet returned trampoline invocations is Len(stack) + 1.      *)
(* Go indices are kept 0-based through Idx.                                *)
(***************************************************************************)
EXTENDS Integers, Sequences, FiniteSets, TLC

VARIABLES
    pc,      \* position of Eval: "ready", "running", "returned", "aborted"
    node,    \* the node n handed to Eval
    envs,    \* the heap of environments; an Env is an index into it, envs[1] is e
    writer,  \* what the primitives have written to w
    ctl,     \* what the innermost trampoline does next
    stack,   \* the suspended callers of nested trampolines, innermost last
    result,  \* Eval's result
    err      \* Eval's err

vars == <<pc, node, envs, writer, ctl, stack, result, err>>

\* ------------------------------------------------------------------ bounds

MaxIter == 3
MaxArgs == 3
MaxFormArgs == 3
MaxEnvs == 12

\* ------------------------------------------------------------------- nodes

Number(v) == [type |-> "Number", Value |-> v]
Symbol(name) == [type |-> "Symbol", Name |-> name]
StringNode(s) == [type |-> "StringNode", Value |-> s]
CharNode(c) == [type |-> "CharNode", Value |-> c]
ListNode(nodes) == [type |-> "ListNode", Nodes |-> nodes]
NilNode == [type |-> "NilNode"]
Function(name, params, body, parentEnv, isMacro) ==
    [type |-> "Function", Name |-> name, Parameters |-> params, Body |-> body,
     ParentEnv |-> parentEnv, IsMacro |-> isMacro]
Primitive(name, min, max) ==
    [type |-> "Primitive", Name |-> name, MinArity |-> min, MaxArity |-> max]

NewListNode(nodes) == ListNode(nodes)

\* Go's nil (no result, no error)
Nil == [type |-> "nil"]

\* args[i] and args[i:] with Go's 0-based index
Idx(s, i) == s[i + 1]
From(s, i) == SubSeq(s, i + 1, Len(s))

\* ------------------------------------------------------------ panic values

EvalError(kind, name, min, max, actual) ==
    [type |-> "EvalError", kind |-> kind, name |-> name,
     min |-> min, max |-> max, actual |-> actual]
EvalErrorAt(kind, name) == EvalError(kind, name, 0, 0, 0)
\* panic("Not a symbol: ...") : a string, not an *EvalError
NotASymbolPanic == [type |-> "string", kind |-> "NotASymbol"]
\* Go's runtime panic of an index expression out of range
IndexOutOfRange == [type |-> "runtime.Error", kind |-> "IndexOutOfRange"]
NoPanic == [type |-> "none"]

\* ------------------------------------------------------------ environments

EmptyMap == [k \in {} |-> NilNode]
SetMap(m, k, v) == [y \in (DOMAIN m) \cup {k} |-> IF y = k THEN v ELSE m[y]]

NewMapEnv(es, name, parent) ==
    Append(es, [Name |-> name, Parent |-> parent, vars |-> EmptyMap])

RECURSIVE FindFrame(_, _, _)
FindFrame(es, e, name) ==
    IF e = 0 THEN 0
    ELSE IF name \in DOMAIN es[e].vars THEN e
    ELSE FindFrame(es, es[e].Parent, name)

EnvSet(es, e, name, v) == [es EXCEPT ![e].vars = SetMap(@, name, v)]
EnvGet(es, e, name) == es[FindFrame(es, e, name)].vars[name]
EnvUpdate(es, e, name, v) == EnvSet(es, FindFrame(es, e, name), name, v)

\* ---------------------------------------------------- packets and outcomes
\* What a piece of Go code ends with: respond(v), bounce(thunk), a synchronous
\* trampoline(thunk) whose caller is suspended as frame fr, or a panic.

respond(v) == [o |-> "respond", v |-> v, envs |-> envs, writer |-> writer]
bounce(th) == [o |-> "bounce", th |-> th, envs |-> envs, writer |-> writer]
trampoline(th, fr) ==
    [o |-> "call", th |-> th, fr |-> fr, envs |-> envs, writer |-> writer]
panic(val) == [o |-> "panic", val |-> val, envs |-> envs, writer |-> writer]
WithEnvs(out, es) == [out EXCEPT !.envs = es]
WithWriter(out, w) == [out EXCEPT !.writer = w]

\* func() packet { return evalNode(e, args[i]) }
EvalNodeThunk(e, args, i) == [k |-> "evalNode", e |-> e, args |-> args, i |-> i]
EvalListThunk(e, l, shouldEvalMacros) ==
    [k |-> "evalList", e |-> e, l |-> l, shouldEvalMacros |-> shouldEvalMacros]

EvalSpecialLetThunk(e, head, args) ==
    [k |-> "evalSpecialLet", e |-> e, head |-> head, args |-> args]
EvalSpecialBeginThunk(e, head, args) ==
    [k |-> "evalSpecialBegin", e |-> e, head |-> head, args |-> args]
EvalFunctionApplicationThunk(dynamicEnv, f, head, unevaledArgs, shouldEvalMacros) ==
    [k |-> "evalFunctionApplication", dynamicEnv |-> dynamicEnv, f |-> f,
     head |-> head, unevaledArgs |-> unevaledArgs,
     shouldEvalMacros |-> shouldEvalMacros]

\* -------------------------------------------------------------- conversions

toSymbolNamePanics(x) == x.type # "Symbol"
toSymbolName(x) == x.Name
toListValuePanics(x) == x.type # "ListNode"
toBooleanValue(x) == x # NilNode /\ x # Symbol("false")
Children(x) == IF x.type = "ListNode" THEN x.Nodes ELSE <<>>

\* ------------------------------------------------------------ arity checks

ensureSpecialArgsCountEquals(formName, head, args, paramCount) ==
    IF Len(args) # paramCount
    THEN EvalError("ArityMismatch", formName, paramCount, paramCount, Len(args))
    ELSE NoPanic

ensureArgsMatchParameters(procedureName, head, args, params) ==
    IF Len(args) # Len(params)
    THEN EvalError("ArityMismatch", procedureName, Len(params), Len(params), Len(args))
    ELSE NoPanic

\* the upper end of the range taken as exclusive
ensurePrimitiveArgsCountBelowMax(name, head, args, paramCountMin, paramCountMax) ==
    IF ~(paramCountMin <= Len(args) /\ Len(args) < paramCountMax)
    THEN EvalError("ArityMismatch", name, paramCountMin, paramCountMax, Len(args))
    ELSE NoPanic

ensurePrimitiveArgsCountInRange(name, head, args, paramCountMin, paramCountMax) ==
    IF ~(paramCountMin <= Len(args) /\ Len(args) <= paramCountMax)
    THEN EvalError("ArityMismatch", name, paramCountMin, paramCountMax, Len(args))
    ELSE NoPanic

\* --------------------------------------------------- the host's primitives
\* f(e, head, args) of a Primitive: supplied by the embedding, never by eval.go.

PrimitiveValue(f, e, head, args) ==
    CASE f.Name = "list" -> respond(NewListNode(args))
      [] f.Name = "emit" ->
            WithWriter(respond(Idx(args, 0)), Append(writer, Idx(args, 0)))
      [] f.Name = "p" ->
            WithWriter(respond(NewListNode(args)), Append(writer, Symbol("p")))
      [] f.Name = "zero?" ->
            respond(IF Idx(args, 0) = Number(0) THEN Symbol("true") ELSE NilNode)
      [] f.Name = "dec" ->
            IF Idx(args, 0).type = "Number"
            THEN respond(Number(Idx(args, 0).Value - 1))
            ELSE panic(EvalErrorAt("PrimitiveFailure", f.Name))
      [] f.Name = "inc" ->
            IF Idx(args, 0).type = "Number"
            THEN respond(Number(Idx(args, 0).Value + 1))
            ELSE panic(EvalErrorAt("PrimitiveFailure", f.Name))

\* ----------------------------------------------------------------- evalNode

evalNode(e, x) ==
    CASE x.type = "Number" -> respond(x)
      [] x.type = "Symbol" ->
            IF FindFrame(envs, e, x.Name) = 0
            THEN panic(EvalErrorAt("UnboundSymbol", x.Name))
            ELSE respond(EnvGet(envs, e, x.Name))
      [] x.type = "StringNode" -> respond(x)
      [] x.type = "CharNode" -> respond(x)
      [] x.type = "ListNode" -> bounce(EvalListThunk(e, x, TRUE))
      [] x.type = "NilNode" -> respond(NilNode)
      [] OTHER -> panic(EvalErrorAt("UnknownForm", x.type))

\* The thunk func() packet { return evalNode(e, args[i]) }: the index
\* expression is evaluated when the thunk runs.
runEvalNodeThunk(th) ==
    IF th.i >= Len(th.args) THEN panic(IndexOutOfRange)
    ELSE evalNode(th.e, Idx(th.args, th.i))

\* ------------------------------------------------------------- evalEachNode

afterFunctionBinding(dynamicEnv, f, lexicalEnv, shouldEvalMacros) ==
    IF f.IsMacro
    THEN trampoline(EvalNodeThunk(lexicalEnv, <<f.Body>>, 0),
                    [k |-> "expansion", dynamicEnv |-> dynamicEnv,
                     lexicalEnv |-> lexicalEnv,
                     shouldEvalMacros |-> shouldEvalMacros])
    ELSE bounce(EvalNodeThunk(lexicalEnv, <<f.Body>>, 0))

\* lexicalEnv.Set(paramName, ...) written against the caller's environment
bindParameterInCaller(es, lexicalEnv, dynamicEnv, paramName, v) ==
    EnvSet(es, dynamicEnv, paramName, v)

bindParameter(es, lexicalEnv, dynamicEnv, paramName, v) ==
    EnvSet(es, lexicalEnv, paramName, v)

\* args[iparam:] in place of args[iarg:]
restArgsFromParam(args, iarg, iparam) == From(args, iparam)

restArgs(args, iarg, iparam) == From(args, iarg)

RECURSIVE mapArguments(_, _, _, _, _, _, _, _)
mapArguments(es, lexicalEnv, dynamicEnv, params, args, iparam, iarg, isMappingRestArgs) ==
    IF iparam >= Len(params) THEN [envs |-> es, panic |-> NoPanic]
    ELSE LET param == Idx(params, iparam) IN
         IF toSymbolNamePanics(param) THEN [envs |-> es, panic |-> NotASymbolPanic]
         ELSE IF isMappingRestArgs
         THEN mapArguments(
                  bindParameter(es, lexicalEnv, dynamicEnv, toSymbolName(param),
                                NewListNode(restArgs(args, iarg, iparam))),
                  lexicalEnv, dynamicEnv, params, args, iparam + 1, iarg, TRUE)
         ELSE IF toSymbolName(param) = "&rest"
         THEN mapArguments(es, lexicalEnv, dynamicEnv, params, args,
                           iparam + 1, iarg, TRUE)
         ELSE IF iparam >= Len(args) THEN [envs |-> es, panic |-> IndexOutOfRange]
         ELSE mapArguments(
                  bindParameter(es, lexicalEnv, dynamicEnv, toSymbolName(param),
                                Idx(args, iparam)),
                  lexicalEnv, dynamicEnv, params, args, iparam + 1, iarg + 1, FALSE)

\* evalFunctionApplication from "Map arguments to parameters" to its end
applyArguments(es, dynamicEnv, f, lexicalEnv, args, shouldEvalMacros) ==
    LET m == mapArguments(es, lexicalEnv, dynamicEnv, f.Parameters, args, 0, 0, FALSE) IN
    IF m.panic # NoPanic THEN WithEnvs(panic(m.panic), m.envs)
    ELSE WithEnvs(afterFunctionBinding(dynamicEnv, f, lexicalEnv, shouldEvalMacros),
                  m.envs)

\* What follows evalEachNode's return in its caller
afterEvalEachNode(es, after, values) ==
    IF after.k = "primitive"
    THEN WithEnvs(PrimitiveValue(after.f, after.e, after.head, values), es)
    ELSE applyArguments(es, after.dynamicEnv, after.f, after.lexicalEnv, values,
                        after.shouldEvalMacros)

\* a loop over ns from the last element to the first
eachNodeIndexReversed(ns, i) == Len(ns) - 1 - i

\* the element that iteration i of `for i, n := range ns` evaluates
eachNodeIndex(ns, i) == i

\* The loop of evalEachNode at iteration i, the results of 0..i-1 in values
evalEachNode(es, e, ns, i, values, after) ==
    IF i < Len(ns)
    THEN WithEnvs(trampoline(EvalNodeThunk(e, ns, eachNodeIndex(ns, i)),
                             [k |-> "evalEachNode", e |-> e, ns |-> ns, i |-> i,
                              values |-> values, after |-> after]), es)
    ELSE afterEvalEachNode(es, after, values)

\* ------------------------------------------- special forms outside eval.go
\* evalSpecialDef, evalSpecialEval, evalSpecialFn, evalSpecialMacro,
\* evalSpecialMacroexpand1, evalSpecialLet and evalSpecialBegin are called by
\* evalList and defined in another file: they follow the specification's table.

evalSpecialDef(e, head, args) ==
    LET a == ensureSpecialArgsCountEquals("def", head, args, 2) IN
    IF a # NoPanic THEN panic(a)
    ELSE IF toSymbolNamePanics(Idx(args, 0)) THEN panic(NotASymbolPanic)
    ELSE trampoline(EvalNodeThunk(e, args, 1),
                    [k |-> "def", e |-> e, name |-> toSymbolName(Idx(args, 0))])

evalSpecialEval(e, head, args) ==
    LET a == ensureSpecialArgsCountEquals("eval", head, args, 1) IN
    IF a # NoPanic THEN panic(a)
    ELSE trampoline(EvalNodeThunk(e, args, 0), [k |-> "eval", e |-> e])

evalSpecialFn(e, head, args) ==
    LET a == ensureSpecialArgsCountEquals("fn", head, args, 2) IN
    IF a # NoPanic THEN panic(a)
    ELSE respond(Function("anonymous", Children(Idx(args, 0)), Idx(args, 1), e, FALSE))

evalSpecialMacro(e, head, args) ==
    LET a == ensureSpecialArgsCountEquals("macro", head, args, 2) IN
    IF a # NoPanic THEN panic(a)
    ELSE respond(Function("anonymous", Children(Idx(args, 0)), Idx(args, 1), e, TRUE))

evalSpecialMacroexpand1(e, head, args) ==
    LET a == ensureSpecialArgsCountEquals("macroexpand1", head, args, 1) IN
    IF a # NoPanic THEN panic(a)
    ELSE IF toListValuePanics(Idx(args, 0))
    THEN panic(EvalErrorAt("NotAList", "macroexpand1"))
    ELSE trampoline(EvalListThunk(e, Idx(args, 0), FALSE), [k |-> "respond"])

\* the binding loop of let at pair i, in the new environment
letBindings(es, newEnv, args, i) ==
    LET bindings == Children(Idx(args, 0)) IN
    IF i + 1 < Len(bindings)
    THEN IF toSymbolNamePanics(Idx(bindings, i))
         THEN WithEnvs(panic(NotASymbolPanic), es)
         ELSE WithEnvs(trampoline(EvalNodeThunk(newEnv, bindings, i + 1),
                                  [k |-> "let", newEnv |-> newEnv, args |-> args,
                                   i |-> i]), es)
    ELSE WithEnvs(bounce(EvalNodeThunk(newEnv, args, 1)), es)

evalSpecialLet(e, head, args) ==
    LET a == ensureSpecialArgsCountEquals("let", head, args, 2) IN
    IF a # NoPanic THEN panic(a)
    ELSE LET es == NewMapEnv(envs, "let", e) IN letBindings(es, Len(es), args, 0)

\* begin at expression i: all but the last to completion, the last bounced
beginSequence(e, head, args, i) ==
    IF Len(args) < 1
    THEN panic(EvalError("ArityMismatch", "begin", 1, 1, Len(args)))
    ELSE IF i + 1 < Len(args)
    THEN trampoline(EvalNodeThunk(e, args, i),
                    [k |-> "begin", e |-> e, head |-> head, args |-> args, i |-> i])
    ELSE bounce(EvalNodeThunk(e, args, i))

evalSpecialBegin(e, head, args) == beginSequence(e, head, args, 0)

\* ----------------------------------------------------------------- evalList

evalListApply(e, args) ==
    IF Len(args) < 1 THEN panic(IndexOutOfRange)
    ELSE trampoline(EvalNodeThunk(e, args, 1),
                    [k |-> "apply", e |-> e, f |-> Idx(args, 0)])

afterApplyList(e, f, v) ==
    IF toListValuePanics(v) THEN panic(EvalErrorAt("NotAList", "apply"))
    ELSE trampoline(EvalListThunk(e, ListNode(<<f>> \o v.Nodes), TRUE),
                    [k |-> "respond"])

evalListUpdate(e, args) ==
    IF Len(args) < 1 THEN panic(IndexOutOfRange)
    ELSE IF toSymbolNamePanics(Idx(args, 0)) THEN panic(NotASymbolPanic)
    ELSE trampoline(EvalNodeThunk(e, args, 1),
                    [k |-> "update", e |-> e, name |-> toSymbolName(Idx(args, 0))])

afterUpdateValue(e, name, v) ==
    IF FindFrame(envs, e, name) = 0 THEN panic(EvalErrorAt("UnboundSymbol", name))
    ELSE WithEnvs(respond(NilNode), EnvUpdate(envs, e, name, v))

evalListIf(e, args) ==
    trampoline(EvalNodeThunk(e, args, 0), [k |-> "if", e |-> e, args |-> args])

\* the branch evaluated by a nested trampoline instead of a bounce
ifBranchNested(e, args, predicate) ==
    trampoline(EvalNodeThunk(e, args, IF predicate THEN 1 ELSE 2), [k |-> "respond"])

ifBranch(e, args, predicate) ==
    IF predicate THEN bounce(EvalNodeThunk(e, args, 1))
    ELSE bounce(EvalNodeThunk(e, args, 2))

\* the loop of cond at index i
evalListCond(e, head, args, i) ==
    IF i < Len(args)
    THEN trampoline(EvalNodeThunk(e, args, i),
                    [k |-> "cond", e |-> e, head |-> head, args |-> args, i |-> i])
    ELSE panic(EvalErrorAt("NoMatchingClause", "cond"))

condClause(e, head, args, i, predicate) ==
    IF predicate THEN bounce(EvalNodeThunk(e, args, i + 1))
    ELSE evalListCond(e, head, args, i + 2)

evalListQuote(args) ==
    IF Len(args) < 1 THEN panic(IndexOutOfRange) ELSE respond(Idx(args, 0))

SpecialNames ==
    {"apply", "def", "eval", "update!", "if", "cond", "fn", "macro",
     "macroexpand1", "quote", "let", "begin"}

evalListSpecial(e, head, args) ==
    CASE head.Name = "apply" -> evalListApply(e, args)
      [] head.Name = "def" -> evalSpecialDef(e, head, args)
      [] head.Name = "eval" -> evalSpecialEval(e, head, args)
      [] head.Name = "update!" -> evalListUpdate(e, args)
      [] head.Name = "if" -> evalListIf(e, args)
      [] head.Name = "cond" -> evalListCond(e, head, args, 0)
      [] head.Name = "fn" -> evalSpecialFn(e, head, args)
      [] head.Name = "macro" -> evalSpecialMacro(e, head, args)
      [] head.Name = "macroexpand1" -> evalSpecialMacroexpand1(e, head, args)
      [] head.Name = "quote" -> evalListQuote(args)
      [] head.Name = "let" -> bounce(EvalSpecialLetThunk(e, head, args))
      [] head.Name = "begin" -> bounce(EvalSpecialBeginThunk(e, head, args))

\* evalList up to its first synchronous trampoline call
evalList(e, l, shouldEvalMacros) ==
    LET elements == l.Nodes IN
    IF Len(elements) = 0 THEN panic(EvalErrorAt("EmptyList", "()"))
    ELSE LET head == Idx(elements, 0)
             args == From(elements, 1)
         IN IF head.type = "Symbol" /\ head.Name \in SpecialNames
            THEN evalListSpecial(e, head, args)
            ELSE trampoline(EvalNodeThunk(e, <<head>>, 0),
                            [k |-> "head", e |-> e, head |-> head, args |-> args,
                             shouldEvalMacros |-> shouldEvalMacros])

\* evalList from the switch on headNode
applyHead(e, headNode, head, args, shouldEvalMacros) ==
    CASE headNode.type = "Primitive" ->
            LET a == ensurePrimitiveArgsCountInRange(
                         headNode.Name, head, args, headNode.MinArity,
                         headNode.MaxArity)
            IN IF a # NoPanic THEN panic(a)
               ELSE evalEachNode(envs, e, args, 0, <<>>,
                                 [k |-> "primitive", f |-> headNode, e |-> e,
                                  head |-> head])
      [] headNode.type = "Function" ->
            bounce(EvalFunctionApplicationThunk(e, headNode, head, args,
                                                shouldEvalMacros))
      [] OTHER -> panic(EvalErrorAt("NotCallable", headNode.type))

\* -------------------------------------------------- evalFunctionApplication

parametersPanic(params) ==
    IF \E i \in 1..Len(params) : toSymbolNamePanics(params[i])
    THEN NotASymbolPanic ELSE NoPanic

isVariableNumberOfParams(params) ==
    \E i \in 1..Len(params) : params[i] = Symbol("&rest")

\* dynamic scoping: the new environment hung under the caller's
lexicalParentDynamic(f, dynamicEnv) == dynamicEnv

lexicalParent(f, dynamicEnv) == f.ParentEnv

\* evalFunctionApplication up to evalEachNode's first trampoline call
evalFunctionApplication(dynamicEnv, f, head, unevaledArgs, shouldEvalMacros) ==
    LET p == parametersPanic(f.Parameters)
        a == IF isVariableNumberOfParams(f.Parameters) THEN NoPanic
             ELSE ensureArgsMatchParameters(f.Name, head, unevaledArgs, f.Parameters)
    IN IF p # NoPanic THEN panic(p)
       ELSE IF a # NoPanic THEN panic(a)
       ELSE LET es == NewMapEnv(envs, f.Name, lexicalParent(f, dynamicEnv))
                lexicalEnv == Len(es)
            IN IF f.IsMacro
               THEN applyArguments(es, dynamicEnv, f, lexicalEnv, unevaledArgs,
                                   shouldEvalMacros)
               ELSE evalEachNode(es, dynamicEnv, unevaledArgs, 0, <<>>,
                                 [k |-> "function", f |-> f,
                                  dynamicEnv |-> dynamicEnv,
                                  lexicalEnv |-> lexicalEnv,
                                  shouldEvalMacros |-> shouldEvalMacros])

\* the expansion evaluated where the macro body was
macroExpansionEnvLexical(dynamicEnv, lexicalEnv) == lexicalEnv

macroExpansionEnv(dynamicEnv, lexicalEnv) == dynamicEnv

afterMacroExpansion(dynamicEnv, lexicalEnv, expandedMacro, shouldEvalMacros) ==
    IF shouldEvalMacros
    THEN bounce(EvalNodeThunk(macroExpansionEnv(dynamicEnv, lexicalEnv),
                              <<expandedMacro>>, 0))
    ELSE respond(expandedMacro)

\* ------------------------------------------------------------------ inputs

S(name) == Symbol(name)
L(nodes) == ListNode(nodes)
Call1(name, arg) == L(<<S(name), arg>>)
Emit(i) == Call1("emit", Number(i))

\* (if (zero? n) 0 <recur>)
IfZero(recur) == L(<<S("if"), Call1("zero?", S("n")), Number(0), recur>>)
SelfCall(name) == Call1(name, Call1("dec", S("n")))
Fn1(name, param, body) == Function(name, <<S(param)>>, body, 1, FALSE)

LoopBody(name) ==
    CASE name = "loop" -> IfZero(SelfCall(name))
      [] name = "loopc" ->
            L(<<S("cond"), Call1("zero?", S("n")), Number(0),
                S("true"), SelfCall(name)>>)
      [] name = "loopl" ->
            L(<<S("let"), L(<<S("m"), Call1("dec", S("n"))>>),
                IfZero(Call1(name, S("m")))>>)
      [] name = "loopb" -> L(<<S("begin"), Emit(9), IfZero(SelfCall(name))>>)
      [] name = "spin" -> Call1(name, S("n"))
      [] name = "count" -> IfZero(Call1("inc", SelfCall(name)))

TailLoops == {"loop", "loopc", "loopl", "loopb", "spin"}
Loops == TailLoops \cup {"count"}

MacBody == L(<<S("list"), Call1("quote", S("list")), S("x"), Call1("quote", S("x")), S("y")>>)
MacCall == Call1("mac", Emit(5))

Globals(f, p) ==
    [name \in Loops |-> Fn1(name, "n", LoopBody(name))]
    @@ ("list" :> Primitive("list", 0, 8))
    @@ ("emit" :> Primitive("emit", 1, 2))
    @@ ("zero?" :> Primitive("zero?", 1, 1))
    @@ ("dec" :> Primitive("dec", 1, 1))
    @@ ("inc" :> Primitive("inc", 1, 1))
    @@ ("x" :> Number(1))
    @@ ("a" :> Number(7))
    @@ ("true" :> S("true"))
    @@ ("h" :> Fn1("h", "y", L(<<S("list"), S("x"), S("y")>>)))
    @@ ("caller" :> Fn1("caller", "x", Call1("h", S("x"))))
    @@ ("mk" :> Fn1("mk", "y", S("list")))
    @@ ("mac" :> Function("mac", <<S("y")>>, MacBody, 1, TRUE))
    @@ ("mcaller" :> Fn1("mcaller", "x", MacCall))
    @@ ("mexpander" :> Fn1("mexpander", "x", Call1("macroexpand1", MacCall)))
    @@ ("f" :> f)
    @@ ("p" :> p)

ParamLists ==
    {<<>>, <<S("a")>>, <<S("a"), S("b")>>, <<S("a"), S("a")>>,
     <<S("&rest"), S("r")>>, <<S("a"), S("&rest"), S("r")>>,
     <<S("a"), S("b"), S("&rest"), S("r")>>, <<S("b"), S("b"), S("&rest"), S("r")>>,
     <<S("a"), S("&rest")>>, <<S("a"), S("&rest"), S("a")>>,
     <<Number(1)>>, <<S("a"), Number(1)>>}

DefaultF == Function("f", <<S("a"), S("&rest"), S("r")>>, Emit(0), 1, FALSE)
DefaultP == Primitive("p", 1, 2)

\* (callee (emit 1) ... (emit n)), argument `fail` (if any) an unbound symbol
CallWith(callee, n, fail) ==
    L(<<S(callee)>> \o [i \in 1..n |-> IF i = fail THEN S("undefined") ELSE Emit(i)])

FunctionCases ==
    {[f |-> Function("f", ps, Emit(0), 1, m), p |-> DefaultP,
      node |-> CallWith("f", n, fail)] :
        ps \in ParamLists, m \in BOOLEAN,
        n \in 0..MaxArgs, fail \in 0..MaxArgs}

PrimitiveCases ==
    {[f |-> DefaultF, p |-> Primitive("p", lo, hi),
      node |-> CallWith("p", n, fail)] :
        lo \in 0..MaxArgs, hi \in 0..MaxArgs,
        n \in 0..(MaxArgs + 1), fail \in 0..(MaxArgs + 1)}

InlineForms == {"quote", "if", "update!", "apply", "cond"}
Atoms == {Number(1), NilNode, S("x"), S("list"), Call1("quote", L(<<Number(1), Number(2)>>))}
RECURSIVE Tuples(_)
Tuples(k) ==
    IF k = 0 THEN {<<>>}
    ELSE {Append(t, x) : t \in Tuples(k - 1), x \in Atoms}
FormArgs == UNION {Tuples(k) : k \in 0..MaxFormArgs}

SpecialFormCases ==
    {[f |-> DefaultF, p |-> DefaultP, node |-> L(<<S(form)>> \o args)] :
        form \in InlineForms, args \in FormArgs}

ScopeProgram == Call1("caller", Number(2))
MacroProgram == Call1("mcaller", Number(2))
ExpandProgram == Call1("mexpander", Number(2))
HeadFirstProgram == L(<<Call1("mk", Emit(0)), Emit(1), Emit(2)>>)

Programs ==
    {L(<<S(name), Number(k)>>) : name \in Loops, k \in 0..MaxIter}
    \cup {ScopeProgram, MacroProgram, ExpandProgram, HeadFirstProgram,
          Number(4), StringNode("s"), CharNode("c"), NilNode, S("x"), S("undefined"),
          L(<<>>), L(<<Number(1), Number(2)>>),
          Call1("eval", S("f")),
          Call1("eval", Call1("quote", Emit(3))),
          L(<<S("begin"), L(<<S("def"), S("z"), Emit(1)>>), Call1("emit", S("z"))>>),
          L(<<S("begin"), L(<<S("def"), S("g"), L(<<S("fn"), L(<<S("x")>>), S("x")>>)>>),
              Call1("g", Emit(3))>>),
          L(<<L(<<S("macro"), L(<<S("y")>>), Number(1)>>), Emit(3)>>),
          L(<<L(<<S("fn"), L(<<Number(1)>>), Number(1)>>), Number(2)>>),
          L(<<S("let"), L(<<S("x"), Number(3), S("y"), S("x")>>), S("y")>>),
          L(<<S("let"), L(<<S("u"), S("v"), S("v"), Number(1)>>), S("u")>>),
          L(<<S("update!"), S("undefined"), Number(1)>>),
          L(<<S("update!"), Number(1), Number(2)>>),
          L(<<S("begin"), L(<<S("update!"), S("x"), Number(5)>>), S("x")>>)}

Cases ==
    {[f |-> DefaultF, p |-> DefaultP, node |-> x] : x \in Programs}
    \cup FunctionCases \cup PrimitiveCases \cup SpecialFormCases

\* ----------------------------------------------------------------- actions

Init ==
    \E c \in Cases :
        /\ pc = "ready"
        /\ node = c.node
        /\ envs = <<[Name |-> "global", Parent |-> 0, vars |-> Globals(c.f, c.p)]>>
        /\ writer = <<>>
        /\ ctl = [op |-> "none"]
        /\ stack = <<>>
        /\ result = Nil
        /\ err = Nil

\* The trampoline's loop body on a packet, and a synchronous trampoline call
Apply(out, base) ==
    /\ Len(out.envs) <= MaxEnvs
    /\ envs' = out.envs
    /\ writer' = out.writer
    /\ ctl' = CASE out.o = "respond" -> [op |-> "ret", v |-> out.v]
                [] out.o = "panic" -> [op |-> "panic", val |-> out.val]
                [] OTHER -> [op |-> "thunk", th |-> out.th]
    /\ stack' = IF out.o = "call" THEN Append(base, out.fr) ELSE base
    /\ UNCHANGED <<pc, node, result, err>>

Running(k) == pc = "running" /\ ctl.op = "thunk" /\ ctl.th.k = k
Top == stack[Len(stack)]
Pop == SubSeq(stack, 1, Len(stack) - 1)
Returning(k) == pc = "running" /\ ctl.op = "ret" /\ stack # <<>> /\ Top.k = k

Eval ==
    /\ pc = "ready"
    /\ pc' = "running"
    /\ ctl' = [op |-> "thunk", th |-> EvalNodeThunk(1, <<node>>, 0)]
    /\ UNCHANGED <<node, envs, writer, stack, result, err>>

EvalReturn ==
    /\ pc = "running" /\ ctl.op = "ret" /\ stack = <<>>
    /\ pc' = "returned"
    /\ result' = ctl.v
    /\ err' = Nil
    /\ UNCHANGED <<node, envs, writer, ctl, stack>>

\* the deferred function of Eval
Recover ==
    /\ pc = "running" /\ ctl.op = "panic"
    /\ result' = Nil
    /\ IF ctl.val.type = "EvalError"
       THEN pc' = "returned" /\ err' = ctl.val
       ELSE pc' = "aborted" /\ err' = err
    /\ stack' = <<>>
    /\ UNCHANGED <<node, envs, writer, ctl>>

StepEvalNode == Running("evalNode") /\ Apply(runEvalNodeThunk(ctl.th), stack)

StepEvalList ==
    /\ Running("evalList")
    /\ Apply(evalList(ctl.th.e, ctl.th.l, ctl.th.shouldEvalMacros), stack)

StepEvalFunctionApplication ==
    /\ Running("evalFunctionApplication")
    /\ Apply(evalFunctionApplication(ctl.th.dynamicEnv, ctl.th.f, ctl.th.head,
                                     ctl.th.unevaledArgs, ctl.th.shouldEvalMacros),
             stack)

StepEvalSpecialLet ==
    /\ Running("evalSpecialLet")
    /\ Apply(evalSpecialLet(ctl.th.e, ctl.th.head, ctl.th.args), stack)

StepEvalSpecialBegin ==
    /\ Running("evalSpecialBegin")
    /\ Apply(evalSpecialBegin(ctl.th.e, ctl.th.head, ctl.th.args), stack)

ResumeHead ==
    /\ Returning("head")
    /\ Apply(applyHead(Top.e, ctl.v, Top.head, Top.args, Top.shouldEvalMacros), Pop)

ResumeEvalEachNode ==
    /\ Returning("evalEachNode")
    /\ Apply(evalEachNode(envs, Top.e, Top.ns, Top.i + 1, Append(Top.values, ctl.v),
                          Top.after), Pop)

ResumeMacroExpansion ==
    /\ Returning("expansion")
    /\ Apply(afterMacroExpansion(Top.dynamicEnv, Top.lexicalEnv, ctl.v,
                                 Top.shouldEvalMacros), Pop)

ResumeApply == Returning("apply") /\ Apply(afterApplyList(Top.e, Top.f, ctl.v), Pop)

ResumeRespond == Returning("respond") /\ Apply(respond(ctl.v), Pop)

ResumeUpdate ==
    Returning("update") /\ Apply(afterUpdateValue(Top.e, Top.name, ctl.v), Pop)

ResumeIf ==
    Returning("if") /\ Apply(ifBranch(Top.e, Top.args, toBooleanValue(ctl.v)), Pop)

ResumeCond ==
    /\ Returning("cond")
    /\ Apply(condClause(Top.e, Top.head, Top.args, Top.i, toBooleanValue(ctl.v)), Pop)

ResumeDef ==
    /\ Returning("def")
    /\ Apply(WithEnvs(respond(NilNode), EnvSet(envs, Top.e, Top.name, ctl.v)), Pop)

ResumeEval ==
    /\ Returning("eval")
    /\ Apply(trampoline(EvalNodeThunk(Top.e, <<ctl.v>>, 0), [k |-> "respond"]), Pop)

ResumeLet ==
    /\ Returning("let")
    /\ Apply(letBindings(
                 EnvSet(envs, Top.newEnv,
                        toSymbolName(Idx(Children(Idx(Top.args, 0)), Top.i)), ctl.v),
                 Top.newEnv, Top.args, Top.i + 2), Pop)

ResumeBegin ==
    /\ Returning("begin")
    /\ Apply(beginSequence(Top.e, Top.head, Top.args, Top.i + 1), Pop)

Next ==
    \/ Eval
    \/ EvalReturn
    \/ Recover
    \/ StepEvalNode
    \/ StepEvalList
    \/ StepEvalFunctionApplication
    \/ StepEvalSpecialLet
    \/ StepEvalSpecialBegin
    \/ ResumeHead
    \/ ResumeEvalEachNode
    \/ ResumeMacroExpansion
    \/ ResumeApply
    \/ ResumeRespond
    \/ ResumeUpdate
    \/ ResumeIf
    \/ ResumeCond
    \/ ResumeDef
    \/ ResumeEval
    \/ ResumeLet
    \/ ResumeBegin

Spec == Init /\ [][Next]_vars

TrampolineDepth == IF pc = "running" THEN Len(stack) + 1 ELSE 0

\* ------------------------------------------------------------------ claims

Finished == pc \in {"returned", "aborted"}
HeadOf(x) == Idx(x.Nodes, 0)
IsCallOf(x, names) ==
    /\ x.type = "ListNode" /\ Len(x.Nodes) >= 1
    /\ HeadOf(x).type = "Symbol" /\ HeadOf(x).Name \in names
ArgCount(x) == Len(x.Nodes) - 1
IsPrefix(s, t) == Len(s) <= Len(t) /\ s = SubSeq(t, 1, Len(s))
Numbers(lo, hi) == [i \in 1..(hi - lo + 1) |-> Number(lo + i - 1)]
SetMax(T) == CHOOSE x \in T : \A y \in T : y <= x

\* the depth of list nesting of a program text, an atom counting 1
RECURSIVE Nest(_)
Nest(x) ==
    IF x.type = "ListNode" /\ Len(x.Nodes) > 0
    THEN 1 + SetMax({Nest(x.Nodes[i]) : i \in 1..Len(x.Nodes)})
    ELSE 1

StaticNesting ==
    SetMax({Nest(node), Nest(LoopBody(HeadOf(node).Name))})

\* C1: while a call of a self-tail-recursive function (through the body itself,
\* if, cond, let or begin) is evaluated, the number of nested trampoline
\* invocations never exceeds the list nesting of the program text, whatever the
\* number of iterations.
C1_TailCallDepthBounded ==
    IsCallOf(node, TailLoops) => TrampolineDepth <= StaticNesting

C1_Witness ==
    /\ \E name \in TailLoops \ {"spin"} : node = L(<<S(name), Number(MaxIter)>>)
    /\ pc = "returned" /\ result = Number(0) /\ err = Nil
    /\ Len(envs) >= MaxIter + 2

GlobalFunction(name) ==
    /\ name \in DOMAIN envs[1].vars
    /\ envs[1].vars[name].type = "Function"
    /\ envs[1].vars[name].Name = name

\* C2: the environment made for an application of a function hangs under the
\* environment the function captured, not under the caller's; so in
\* (caller 2), where caller binds x to 2 and calls (h x), with h = (fn (y)
\* (list x y)) defined where x is 1, the free x of h is 1 and its argument x,
\* evaluated in the caller's environment, is 2.
C2_LexicalScoping ==
    /\ \A e \in 2..Len(envs) :
           GlobalFunction(envs[e].Name)
               => envs[e].Parent = envs[1].vars[envs[e].Name].ParentEnv
    /\ (node = ScopeProgram /\ Finished)
           => /\ pc = "returned" /\ err = Nil
              /\ result = L(<<Number(1), Number(2)>>)

C2_Witness ==
    /\ node = ScopeProgram /\ pc = "returned"
    /\ Len(envs) = 3 /\ envs[2].Name = "caller" /\ envs[3].Name = "h"
    /\ envs[2].vars["x"] = Number(2) /\ envs[3].Parent = 1

TaxonomyKinds ==
    {"UnboundSymbol", "ArityMismatch", "NotCallable", "EmptyList", "UnknownForm",
     "NoMatchingClause", "NotASymbol", "NotAList"}

\* C3: every error of the taxonomy raised inside an evaluation ends Eval with
\* a nil result and that error as the returned err, never with a host abort.
C3_TaxonomyErrorsReturned ==
    (Finished /\ ctl.op = "panic" /\ ctl.val.kind \in TaxonomyKinds)
        => (pc = "returned" /\ result = Nil /\ err = ctl.val)

WrongFormCount(x) ==
    LET name == HeadOf(x).Name
        c == ArgCount(x)
    IN CASE name = "quote" -> c # 1
         [] name = "if" -> c # 3
         [] name \in {"update!", "apply"} -> c # 2
         [] name = "cond" -> c % 2 = 1
         [] OTHER -> FALSE

\* C4: quote, if, update!, apply and cond applied to a wrong number of
\* arguments end Eval with a returned ArityMismatch error.
C4_SpecialFormArityChecked ==
    (IsCallOf(node, InlineForms) /\ WrongFormCount(node) /\ Finished)
        => (pc = "returned" /\ result = Nil
            /\ err.type = "EvalError" /\ err.kind = "ArityMismatch")

\* the number of parameters before the first &rest (0-based position of it)
RECURSIVE RestPosition(_, _)
RestPosition(params, i) ==
    IF i >= Len(params) THEN i
    ELSE IF Idx(params, i) = S("&rest") THEN i
    ELSE RestPosition(params, i + 1)

TheF == envs[1].vars["f"]
\* f has k ordinary parameters, then &rest, then one name
VariadicShape(f) ==
    /\ \A i \in 1..Len(f.Parameters) : f.Parameters[i].type = "Symbol"
    /\ Len(f.Parameters) = RestPosition(f.Parameters, 0) + 2
    /\ Idx(f.Parameters, Len(f.Parameters) - 1) # S("&rest")
FamilyCall(callee) == \E c \in 0..(MaxArgs + 1) : node = CallWith(callee, c, 0)

\* C5: a function with k parameters before &rest, applied to fewer than k
\* arguments, ends Eval with a returned ArityMismatch error.
C5_VariadicMinimumArity ==
    (FamilyCall("f") /\ VariadicShape(TheF)
     /\ ArgCount(node) < RestPosition(TheF.Parameters, 0) /\ Finished)
        => (pc = "returned" /\ result = Nil
            /\ err.type = "EvalError" /\ err.kind = "ArityMismatch")

\* what evalFunctionApplication binds for the call `node` of f: the argument
\* nodes themselves for a macro, their values for a function
PreparedArgs(f) ==
    IF f.IsMacro THEN From(node.Nodes, 1) ELSE Numbers(1, ArgCount(node))

\* the environment of the application of f is env 2; its parameters are bound
\* once no evalEachNode of that application is suspended any more
BindingDone ==
    /\ Len(envs) >= 2 /\ envs[2].Name = "f"
    /\ ctl.op # "panic"
    /\ \A i \in 1..Len(stack) :
           ~(stack[i].k = "evalEachNode" /\ stack[i].after.k = "function")

\* the last of the ordinary parameters 1..k that carries the name of parameter i
LastOrdinary(params, k, i) ==
    SetMax({j \in 1..k : params[j] = params[i]})

\* C6: with k ordinary parameters followed by &rest r and n >= k prepared
\* arguments, r is bound to a list of exactly the arguments k..n-1 in order
\* (empty when n = k) and every ordinary parameter name to the argument at its
\* position (at the last position bearing the name when a name is repeated,
\* r winning over an ordinary parameter of the same name); nothing else is
\* bound in the new environment.
C6_VariadicBinding ==
    LET params == TheF.Parameters
        k == RestPosition(params, 0)
        c == ArgCount(node)
        args == PreparedArgs(TheF)
        r == Idx(params, k + 1).Name
        bound == envs[2].vars
    IN (FamilyCall("f") /\ VariadicShape(TheF) /\ c >= k /\ BindingDone)
        => /\ DOMAIN bound = {params[i].Name : i \in 1..k} \cup {r}
           /\ bound[r] = ListNode(SubSeq(args, k + 1, c))
           /\ \A i \in 1..k :
                  params[i].Name # r
                      => bound[params[i].Name] = args[LastOrdinary(params, k, i)]

C6_Witness ==
    /\ FamilyCall("f") /\ BindingDone /\ ArgCount(node) = 3
    /\ TheF.Parameters = <<S("a"), S("&rest"), S("r")>>
    /\ ~TheF.IsMacro
    /\ envs[2].vars["a"] = Number(1)
    /\ envs[2].vars["r"] = L(<<Number(2), Number(3)>>)

C6_WitnessEmptyRest ==
    /\ FamilyCall("f") /\ BindingDone /\ ArgCount(node) = 1
    /\ TheF.Parameters = <<S("a"), S("&rest"), S("r")>>
    /\ envs[2].vars["r"] = L(<<>>)

TheP == envs[1].vars["p"]
InRange(p, c) == p.MinArity <= c /\ c <= p.MaxArity
PrimitiveCall ==
    \E c \in 0..(MaxArgs + 1), fail \in 0..(MaxArgs + 1) : node = CallWith("p", c, fail)
Raised(kind) == ctl.op = "panic" /\ ctl.val.kind = kind

\* C7: a call of the primitive p, declared [min, max], with a number of
\* arguments outside the range writes nothing (no argument is evaluated, p is
\* not invoked) and ends with ArityMismatch carrying (min, max, count); with a
\* number inside the range, min and max included, no ArityMismatch is raised.
C7_PrimitiveArityChecked ==
    PrimitiveCall =>
        IF InRange(TheP, ArgCount(node))
        THEN ~Raised("ArityMismatch")
        ELSE /\ writer = <<>>
             /\ Finished =>
                    /\ pc = "returned" /\ result = Nil
                    /\ err = EvalError("ArityMismatch", "p", TheP.MinArity,
                                       TheP.MaxArity, ArgCount(node))

C7_Witness ==
    /\ node = CallWith("p", 3, 0) /\ TheP = Primitive("p", 1, 2)
    /\ pc = "returned" /\ writer = <<>>
    /\ err = EvalError("ArityMismatch", "p", 1, 2, 3)

C7_WitnessAtMax ==
    /\ node = CallWith("p", 2, 0) /\ TheP = Primitive("p", 1, 2)
    /\ pc = "returned" /\ err = Nil
    /\ writer = <<Number(1), Number(2), S("p")>>

Expansion == L(<<S("list"), Number(1), S("x"), Emit(5)>>)
Expanding == \E i \in 1..Len(stack) : stack[i].k = "expansion"

\* C8: a macro's arguments are bound as written and none is evaluated while
\* the macro is applied; the body runs in a child of the macro's captured
\* environment; the expansion is then evaluated in the caller's environment,
\* or, under macroexpand1, returned as it is.
C8_MacroTwoPhase ==
    /\ (FamilyCall("f") /\ TheF.IsMacro)
           => /\ \A i \in 1..Len(writer) : writer[i] = Number(0)
              /\ (Len(envs) >= 2 /\ ~Raised("IndexOutOfRange"))
                     => \A name \in DOMAIN envs[2].vars :
                            \/ envs[2].vars[name] \in
                                   {node.Nodes[i] : i \in 2..Len(node.Nodes)}
                            \/ /\ envs[2].vars[name].type = "ListNode"
                               /\ \A j \in 1..Len(envs[2].vars[name].Nodes) :
                                      envs[2].vars[name].Nodes[j] \in
                                          {node.Nodes[i] : i \in 2..Len(node.Nodes)}
    /\ (node \in {MacroProgram, ExpandProgram})
           => /\ Expanding
                     => /\ writer = <<>>
                        /\ envs[Len(envs)].Name = "mac"
                        /\ envs[Len(envs)].Parent = envs[1].vars["mac"].ParentEnv
                        /\ envs[Len(envs)].vars["y"] = Emit(5)
              /\ Finished => pc = "returned" /\ err = Nil
    /\ (node = MacroProgram /\ Finished)
           => /\ result = L(<<Number(1), Number(2), Number(5)>>)
              /\ writer = <<Number(5)>>
    /\ (node = ExpandProgram /\ Finished)
           => /\ result = Expansion
              /\ writer = <<>>

C8_Witness ==
    /\ node = MacroProgram /\ pc = "returned"
    /\ result = L(<<Number(1), Number(2), Number(5)>>)

C8_WitnessExpandOnly == node = ExpandProgram /\ pc = "returned" /\ result = Expansion

\* the position of the unbound argument of a call built by CallWith, 0 if none
FailPosition(x) ==
    IF \E i \in 1..ArgCount(x) : x.Nodes[i + 1] = S("undefined")
    THEN CHOOSE i \in 1..ArgCount(x) : x.Nodes[i + 1] = S("undefined")
    ELSE 0

FunctionCall ==
    \E c \in 0..MaxArgs, fail \in 0..MaxArgs : node = CallWith("f", c, fail)

\* f is a function whose application to the arguments of `node` passes the
\* arity check and binds every parameter
Applicable(f) ==
    /\ ~f.IsMacro
    /\ \A i \in 1..Len(f.Parameters) : f.Parameters[i].type = "Symbol"
    /\ IF isVariableNumberOfParams(f.Parameters)
       THEN ArgCount(node) >= RestPosition(f.Parameters, 0)
       ELSE ArgCount(node) = Len(f.Parameters)

\* what is written, in order, when the head is evaluated first, then the
\* arguments (emit 1) ... (emit n) from left to right up to a failing one,
\* then the callee (p writes p, the body of f writes 0)
WrittenInOrder(last) ==
    IF FailPosition(node) = 0
    THEN Numbers(1, ArgCount(node)) \o <<last>>
    ELSE Numbers(1, FailPosition(node) - 1)

OrderedCase ==
    \/ PrimitiveCall /\ InRange(TheP, ArgCount(node))
    \/ FunctionCall /\ Applicable(TheF)
    \/ node = HeadFirstProgram

ExpectedWriter ==
    IF node = HeadFirstProgram THEN Numbers(0, 2)
    ELSE IF PrimitiveCall THEN WrittenInOrder(S("p"))
    ELSE WrittenInOrder(Number(0))

\* C9: in an application the head is evaluated first, then the arguments one
\* by one from left to right, all before the primitive or the function body
\* runs, and no argument to the right of a failing one is evaluated: what the
\* arguments and the callee write appears in exactly that order.
C9_LeftToRight ==
    OrderedCase =>
        /\ IsPrefix(writer, ExpectedWriter)
        /\ Finished => writer = ExpectedWriter

C9_Witness ==
    /\ node = CallWith("p", 3, 0) /\ TheP = Primitive("p", 0, 3)
    /\ pc = "returned"
    /\ writer = <<Number(1), Number(2), Number(3), S("p")>>

C9_WitnessFailing ==
    /\ node = CallWith("f", 3, 2) /\ Applicable(TheF)
    /\ pc = "returned" /\ err.type = "EvalError" /\ err.kind = "UnboundSymbol"
    /\ writer = <<Number(1)>>

C9_WitnessHeadFirst ==
    node = HeadFirstProgram /\ pc = "returned" /\ writer = Numbers(0, 2)

Applying == Running("evalFunctionApplication")
Binding ==
    \/ Applying
    \/ Returning("evalEachNode") /\ Top.after.k = "function"
\* the environment the application in progress binds into
ApplicationEnv == IF Applying THEN Len(envs) + 1 ELSE Top.after.lexicalEnv
ArityRejected ==
    /\ Applying
    /\ \A i \in 1..Len(ctl.th.f.Parameters) : ctl.th.f.Parameters[i].type = "Symbol"
    /\ ~isVariableNumberOfParams(ctl.th.f.Parameters)
    /\ Len(ctl.th.unevaledArgs) # Len(ctl.th.f.Parameters)

\* C10: a step of evalFunctionApplication that creates the environment of the
\* application or binds its parameters leaves every other environment as it
\* was, the caller's and the captured parent included; and the application of
\* a non-variadic function to a wrong number of arguments panics with
\* ArityMismatch in its first step, with no environment created and nothing
\* evaluated or written.
C10_BindingFrame ==
    [][/\ Binding =>
              /\ Len(envs') >= Len(envs)
              /\ \A e \in 1..Len(envs) : e # ApplicationEnv => envs'[e] = envs[e]
       /\ ArityRejected =>
              /\ envs' = envs /\ writer' = writer /\ stack' = stack
              /\ ctl'.op = "panic" /\ ctl'.val.kind = "ArityMismatch"]_vars

C10_Witness ==
    /\ FunctionCall /\ ArgCount(node) = 2 /\ pc = "returned"
    /\ TheF.Parameters = <<S("a"), S("b")>>
    /\ Len(envs) = 2
    /\ envs[2].vars = ("a" :> PreparedArgs(TheF)[1]) @@ ("b" :> PreparedArgs(TheF)[2])
    /\ envs[1].vars = Globals(TheF, DefaultP)

C10_WitnessRejected ==
    /\ FunctionCall /\ ArgCount(node) = 3 /\ pc = "returned"
    /\ TheF.Parameters = <<S("a"), S("b")>>
    /\ err.type = "EvalError" /\ err.kind = "ArityMismatch"
    /\ Len(envs) = 1 /\ writer = <<>>

====
